---- MODULE Spec2Model ----
(***************************************************************************)
(* Model of the Botanist database adapter (crate db_adapter).              *)
(*                                                                         *)
(* The state is the table `guilds` of src/src/guild.rs, one row per         *)
(* community, and the GuildConfigBuilder a caller is filling in.           *)
(*                                                                         *)
(*   Spec      the privilege system on the row of one community: the role  *)
(*             arrays priv_admin, priv_manager and priv_event, the methods *)
(*             grant_privilege and deny_privilege and the read-only        *)
(*             methods over the arrays.                                    *)
(*   MsgSpec   the welcome and goodbye messages of one community:          *)
(*             set_message and get_message.                                *)
(*   LifeSpec  the life of the rows: the builder, GuildConfig::new,        *)
(*             exists, the getters and the calls on ids without a row.     *)
(*                                                                         *)
(*   ChanSpec  the settings of the rows that exist: set_advertise,         *)
(*             get_advertise, set_admin_chan and get_admin_chan.           *)
(*   SlapSpec  the ledger of src/src/slap.rs, table `slaps`: new_slap      *)
(*             through both records and SlapReport::get.                   *)
(*   ViewSpec  the ledger read through MemberSlapRecord and                *)
(*             GuildSlapRecord: slaps, len, offenders, offender_count.     *)
(*   RaceSpec  concurrent callers of GuildConfig::new, each call two       *)
(*             steps: the query of exists, then the INSERT.                *)
(*   StepSpec  concurrent callers of grant_privilege and deny_privilege    *)
(*             on one row, each step one round trip to the store: the      *)
(*             SELECT of an array, then the UPDATE of the whole array;     *)
(*             any round trip may fail with a store error.                 *)
(*             StepLiveSpec is StepSpec with a store that answers.         *)
(*   TenantSpec  two communities side by side: set_message and             *)
(*             set_advertise on either row, and records in the ledger      *)
(*             of either community.                                        *)
(*                                                                         *)
(* Outside RaceSpec and StepSpec callers are sequential: every action is   *)
(* one whole method call, with every query it issues, and the connection   *)
(* never drops: a query fails only when the server rejects the statement   *)
(* or fetch_one finds no row.  Identifiers are within the signed 64-bit    *)
(* range of the store.                                                     *)
(***************************************************************************)
EXTENDS Integers, Sequences, FiniteSets, TLC

\* ---------------------------------------------------------------- bounds

\* Role identifiers are 1..MaxRole.
MaxRole == 2

\* Total number of array elements the row may hold (the three arrays together).
MaxStore == 3

\* Longest list handed to have_privilege / has_privileges.
MaxArgs == 2

Roles == 1..MaxRole

\* enum Privilege
Privileges == {"Manager", "Admin", "Event"}

\* The lists over S of length at most n that name no element twice.  (Both
\* list-taking methods test each element on its own, against one snapshot.)
ListsUpTo(S, n) ==
    {s \in UNION {[1..k -> S] : k \in 0..n} :
        \A i, j \in 1..Len(s) : s[i] = s[j] => i = j}

\* the `roles: &[RoleId]` handed to have_privilege
RoleLists == ListsUpTo(Roles, MaxArgs)

\* the `privileges: &[Privilege]` handed to has_privileges
PrivilegeLists == ListsUpTo(Privileges, MaxArgs)

\* ---------------------------------------------------------------- strings

\* The length limit of a message, `2000` in set_message and in the builder.
MaxMessageLen == 2000

\* The characters of the message strings: an ASCII letter, a letter that takes
\* two bytes in UTF-8, and the single quote that delimits an SQL literal.
Alphabet == {"a", "e2", "'"}

\* Number of bytes of a character in UTF-8.
utf8_len(c) == IF c \in {"e2", "--"} THEN 2 ELSE 1

\* A string is a sequence of runs, a run being n >= 1 copies of one character
\* and neighbouring runs being of different characters.
Run(c, n) == [c |-> c, n |-> n]

\* the string of n copies of c
Str(c, n) == <<Run(c, n)>>

\* The lengths of the message strings: short ones and the ones around the limit.
MessageLens == {1, 2, MaxMessageLen, MaxMessageLen + 1}

\* The message strings the callers pass: one character repeated.
Messages == {Str(c, n) : c \in Alphabet, n \in MessageLens}

\* "hello", FIRST_WELCOME_MESSAGE of the test fixtures: five ASCII letters
Hello == Str("a", 5)

\* str::len: the number of bytes
RECURSIVE len(_)
len(string) ==
    IF string = <<>> THEN 0
    ELSE Head(string).n * utf8_len(Head(string).c) + len(Tail(string))

\* str::chars().count(): the number of characters
RECURSIVE chars(_)
chars(string) ==
    IF string = <<>> THEN 0 ELSE Head(string).n + chars(Tail(string))

\* Option<T>
None == <<>>

Some(value) == <<value>>

\* ----------------------------------------------------------------- state

\* GuildId(5844) and GuildId(8750), the two communities of the test fixtures
FIRST_ID == 5844

SECOND_ID == 8750

GuildIds == {FIRST_ID, SECOND_ID}

VARIABLES
    guilds,   \* table `guilds`: the row of every id that has one
    builder,  \* the GuildConfigBuilder the caller is filling in
    text,     \* the message string the caller hands to the builder
    last,     \* the last completed call: its name, arguments, error and return value
    slaps,    \* table `slaps`: the rows of the ledger, in the order of their sentence
    calls     \* the GuildConfig::new calls in flight, one per concurrent caller

vars == <<guilds, builder, text, last, slaps, calls>>

\* The row of the community the privilege and message calls are made on.
guild == guilds[FIRST_ID]

\* ------------------------------------------------------------ error values

\* Ok(..) of Result<_, GuildConfigError>
Ok == [kind |-> "Ok", role |-> 0, privilege |-> "none"]

\* GuildConfigError::RoleNoPrivilege { role, privilege }
RoleNoPrivilege(role, privilege) ==
    [kind |-> "RoleNoPrivilege", role |-> role, privilege |-> privilege]

\* GuildConfigError::MessageTooLong { field }
MessageTooLong(field) == [kind |-> "MessageTooLong", field |-> field]

\* GuildConfigError::AlreadyExists(GuildId)
AlreadyExists(id) == [kind |-> "AlreadyExists", id |-> id]

\* GuildConfigError::SqlxError(sqlx::Error): RowNotFound of fetch_one, or the
\* error the server answers a statement with.
SqlxError(error) == [kind |-> "SqlxError", error |-> error]

\* ------------------------------------------------------- Vec<i64> helpers

\* Vec::contains
contains(s, x) == \E i \in 1..Len(s) : s[i] = x

\* Iterator::position: index of the first element equal to x, 0 for None
position(s, x) ==
    IF contains(s, x)
    THEN CHOOSE i \in 1..Len(s) : s[i] = x /\ \A j \in 1..(i - 1) : s[j] # x
    ELSE 0

\* A swap_remove that drops the last element whatever the index.
swap_remove_Last(s, index) == SubSeq(s, 1, Len(s) - 1)

\* Vec::swap_remove: the element at index is replaced by the last one
swap_remove(s, index) ==
    [i \in 1..(Len(s) - 1) |-> IF i = index THEN s[Len(s)] ELSE s[i]]

\* ------------------------------------------------------------ GuildConfig

\* impl AsRef<str> for Privilege: the column of a privilege
AsRef(privilege) ==
    CASE privilege = "Admin" -> "priv_admin"
      [] privilege = "Manager" -> "priv_manager"
      [] privilege = "Event" -> "priv_event"

\* SELECT <column> FROM guilds WHERE id=..
get_raw_roles_with(row, privilege) == row[AsRef(privilege)]

\* u64::try_from(int).unwrap().into(): the id of a stored integer; the unwrap
\* panics on a negative one.
from_i64(int) == IF int >= 0 THEN int ELSE [panic |-> "TryFromIntError"]

\* the array of the privilege, each element turned into its RoleId, in the
\* order of the array
get_roles_with(row, privilege) ==
    [i \in 1..Len(get_raw_roles_with(row, privilege)) |->
        from_i64(get_raw_roles_with(row, privilege)[i])]

\* UPDATE guilds SET <column>=<ids> WHERE id=..
update_privilege(row, ids, privilege) == [row EXCEPT ![AsRef(privilege)] = ids]

\* A grant_single_privilege that writes the role alone, without the array read.
grant_single_privilege_Alone(row, id, privilege) ==
    update_privilege(row, <<id>>, privilege)

\* read the array, push the role, write the array back
grant_single_privilege(row, id, privilege) ==
    update_privilege(row, Append(get_raw_roles_with(row, privilege), id), privilege)

\* A grant_privilege that forgets the Manager cascade of Admin.
grant_privilege_NoCascade(row, id, privilege) ==
    [row |-> grant_single_privilege(row, id, privilege), result |-> Ok]

\* A grant_privilege that cascades to Manager for every privilege but Manager.
grant_privilege_CascadeAll(row, id, privilege) ==
    LET cascaded == IF privilege # "Manager"
                    THEN grant_single_privilege(row, id, "Manager")
                    ELSE row
    IN  [row |-> grant_single_privilege(cascaded, id, privilege), result |-> Ok]

grant_privilege(row, id, privilege) ==
    LET cascaded == IF privilege = "Admin"
                    THEN grant_single_privilege(row, id, "Manager")
                    ELSE row
    IN  [row |-> grant_single_privilege(cascaded, id, privilege), result |-> Ok]

\* A deny_privilege that treats a role missing from the array as already denied.
RECURSIVE deny_privilege_Silent(_, _, _)
deny_privilege_Silent(row, id, privilege) ==
    LET cascade == IF privilege = "Admin"
                   THEN deny_privilege_Silent(row, id, "Manager")
                   ELSE [row |-> row, result |-> Ok]
        roles == get_raw_roles_with(cascade.row, privilege)
        index == position(roles, id)
    IN  IF index = 0
        THEN [row |-> cascade.row, result |-> Ok]
        ELSE [row |-> update_privilege(cascade.row, swap_remove(roles, index), privilege),
              result |-> Ok]

RECURSIVE deny_privilege(_, _, _)
deny_privilege(row, id, privilege) ==
    LET cascade == IF privilege = "Admin"
                   THEN deny_privilege(row, id, "Manager")
                   ELSE [row |-> row, result |-> Ok]
    IN  IF cascade.result.kind # "Ok"
        THEN cascade    \* the `?` after the recursive call
        ELSE LET roles == get_raw_roles_with(cascade.row, privilege)
                 index == position(roles, id)
             IN  IF index = 0
                 THEN [row |-> cascade.row, result |-> RoleNoPrivilege(id, privilege)]
                 ELSE [row |-> update_privilege(cascade.row,
                                                swap_remove(roles, index), privilege),
                       result |-> Ok]

has_privilege(row, role, privilege) ==
    contains(get_raw_roles_with(row, privilege), role)

\* the `for id in ids` loop of have_privilege, from position i on
RECURSIVE have_privilege_loop(_, _, _)
have_privilege_loop(db_roles, ids, i) ==
    IF i > Len(ids) THEN TRUE
    ELSE IF ~contains(db_roles, ids[i]) THEN FALSE
    ELSE have_privilege_loop(db_roles, ids, i + 1)

\* A have_privilege that answers true as soon as one role has the privilege.
have_privilege_Any(row, roles, privilege) ==
    \E i \in 1..Len(roles) : contains(get_raw_roles_with(row, privilege), roles[i])

have_privilege(row, roles, privilege) ==
    have_privilege_loop(get_raw_roles_with(row, privilege), roles, 1)

\* A get_privileges_for that reports Admin without the Manager it implies.
get_privileges_for_AdminOnly(row, role) ==
    LET axis == IF has_privilege(row, role, "Admin") THEN <<"Admin">>
                ELSE IF has_privilege(row, role, "Manager") THEN <<"Manager">>
                ELSE <<>>
    IN  IF has_privilege(row, role, "Event") THEN Append(axis, "Event") ELSE axis

get_privileges_for(row, role) ==
    LET axis == IF has_privilege(row, role, "Admin") THEN <<"Admin", "Manager">>
                ELSE IF has_privilege(row, role, "Manager") THEN <<"Manager">>
                ELSE <<>>
    IN  IF has_privilege(row, role, "Event") THEN Append(axis, "Event") ELSE axis

\* the `for privilege in privileges` loop of has_privileges, from position i on
RECURSIVE has_privileges_loop(_, _, _)
has_privileges_loop(privs, privileges, i) ==
    IF i > Len(privileges) THEN TRUE
    ELSE IF ~contains(privs, privileges[i]) THEN FALSE
    ELSE has_privileges_loop(privs, privileges, i + 1)

has_privileges(row, role, privileges) ==
    has_privileges_loop(get_privileges_for(row, role), privileges, 1)

\* --------------------------------------------------------------- messages

\* enum MessageType
MessageTypes == {"Welcome", "Goodbye"}

\* impl AsRef<str> for MessageType: the column of a message
MessageType_as_ref(msg_ty) ==
    IF msg_ty = "Welcome" THEN "welcome_message" ELSE "goodbye_message"

\* The keyword NULL of an SQL statement.
NULL == <<Run("NULL", 1)>>

\* format!("'{}'", value) for Some(value), "NULL" for None: the text written
\* into the statement, the value between two quotes and otherwise as it is.
stringify_option(option) ==
    IF option = None THEN NULL
    ELSE <<Run("'", 1)>> \o option[1] \o <<Run("'", 1)>>

\* The text with neighbouring runs of one character joined.
RECURSIVE joined(_)
joined(sql) ==
    IF Len(sql) < 2 THEN sql
    ELSE IF sql[1].c = sql[2].c
         THEN joined(<<Run(sql[1].c, sql[1].n + sql[2].n)>> \o Tail(Tail(sql)))
         ELSE <<sql[1]>> \o joined(Tail(sql))

\* The server reading a string literal from the joined text, `inside` once the
\* opening quote is read: inside the literal two quotes in a row stand for one
\* quote of the value and a single quote ends it.  The literal has to end with
\* the text: letters after it are no SQL, and a literal still open at the end
\* of the text swallows the rest of the statement.
RECURSIVE string_literal(_, _, _)
string_literal(sql, inside, value) ==
    IF sql = <<>> THEN [ok |-> FALSE, value |-> None]
    ELSE IF Head(sql).c = "'"
    THEN LET k == IF inside THEN Head(sql).n ELSE Head(sql).n - 1
             read == IF k \div 2 > 0 THEN Append(value, Run("'", k \div 2))
                     ELSE value
         IN  IF k % 2 = 1
             THEN [ok |-> Tail(sql) = <<>>, value |-> Some(read)]
             ELSE string_literal(Tail(sql), TRUE, read)
    ELSE IF inside
    THEN string_literal(Tail(sql), TRUE, Append(value, Head(sql)))
    ELSE [ok |-> FALSE, value |-> None]

\* The server reading a string literal at the head of the joined text, as
\* string_literal does, and handing back the text that follows the literal.
RECURSIVE literal_and_rest(_, _, _)
literal_and_rest(sql, inside, value) ==
    IF sql = <<>> THEN [ok |-> FALSE, value |-> None, rest |-> <<>>]
    ELSE IF Head(sql).c = "'"
    THEN LET k == IF inside THEN Head(sql).n ELSE Head(sql).n - 1
             read == IF k \div 2 > 0 THEN Append(value, Run("'", k \div 2))
                     ELSE value
         IN  IF k % 2 = 1
             THEN [ok |-> TRUE, value |-> Some(read), rest |-> Tail(sql)]
             ELSE literal_and_rest(Tail(sql), TRUE, read)
    ELSE IF inside
    THEN literal_and_rest(Tail(sql), TRUE, Append(value, Head(sql)))
    ELSE [ok |-> FALSE, value |-> None, rest |-> <<>>]

\* The value the server reads from a text that is to be one literal or NULL.
sql_value(sql) ==
    IF sql = NULL THEN [ok |-> TRUE, value |-> None]
    ELSE string_literal(joined(sql), FALSE, <<>>)

\* UPDATE guilds SET <column>=<value> WHERE id=<id>: no row, no change
sql_update(table, id, column, value) ==
    IF id \in DOMAIN table THEN [table EXCEPT ![id][column] = value] ELSE table

\* UPDATE guilds SET <column>=<value> with no WHERE clause: every row
sql_update_all(table, column, value) ==
    [id \in DOMAIN table |-> [table[id] EXCEPT ![column] = value]]

\* The two dashes that begin a comment, which takes the rest of the line.
Comment == Run("--", 1)

\* "hello'--": a message that closes its literal and begins a comment
CommentedOut == Hello \o <<Run("'", 1), Comment>>

\* What the server reads from `SET <column>=<text> WHERE id=<id>`, all on one
\* line: the value, and whether the WHERE clause is part of the statement.
\* After the literal the text has to end, or to go on with a comment, which
\* takes the rest of the line and the WHERE clause with it.
sql_set(sql) ==
    IF sql = NULL THEN [ok |-> TRUE, value |-> None, where |-> TRUE]
    ELSE LET read == literal_and_rest(joined(sql), FALSE, <<>>)
         IN  IF read.ok /\ read.rest = <<>>
             THEN [ok |-> TRUE, value |-> read.value, where |-> TRUE]
             ELSE IF read.ok /\ Head(read.rest).c = Comment.c
             THEN [ok |-> TRUE, value |-> read.value, where |-> FALSE]
             ELSE [ok |-> FALSE, value |-> None, where |-> TRUE]

\* The UPDATE of set_message as the server runs it.
sql_set_message(table, id, column, read) ==
    IF read.where THEN sql_update(table, id, column, read.value)
    ELSE sql_update_all(table, column, read.value)

\* A set_message that checks the length after the UPDATE.
set_message_CheckLast(table, self, msg_ty, msg) ==
    LET read == sql_set(stringify_option(msg))
        written == sql_set_message(table, self, MessageType_as_ref(msg_ty), read)
    IN  IF ~read.ok
        THEN [table |-> table, result |-> SqlxError("syntax error")]
        ELSE IF msg # None /\ len(msg[1]) > MaxMessageLen
        THEN [table |-> written, result |-> MessageTooLong(MessageType_as_ref(msg_ty))]
        ELSE [table |-> written, result |-> Ok]

set_message(table, self, msg_ty, msg) ==
    IF msg # None /\ len(msg[1]) > MaxMessageLen
    THEN [table |-> table, result |-> MessageTooLong(MessageType_as_ref(msg_ty))]
    ELSE LET read == sql_set(stringify_option(msg))
         IN  IF ~read.ok
             THEN [table |-> table, result |-> SqlxError("syntax error")]
             ELSE [table |-> sql_set_message(table, self,
                                             MessageType_as_ref(msg_ty), read),
                   result |-> Ok]

\* SELECT <column> FROM guilds WHERE id=.. with fetch_one
get_message(table, self, msg_ty) ==
    IF self \in DOMAIN table
    THEN [result |-> Ok, value |-> table[self][MessageType_as_ref(msg_ty)]]
    ELSE [result |-> SqlxError("RowNotFound"), value |-> None]

\* ------------------------------------------------------------------ calls

\* The record of a completed call.
Call(op, role, privilege, roles, privileges, err, ret) ==
    [op |-> op, role |-> role, privilege |-> privilege, roles |-> roles,
     privileges |-> privileges, err |-> err, ret |-> ret]

\* The record of a completed call on a message.
MessageCall(op, msg_ty, msg, err, ret) ==
    [msg_ty |-> msg_ty, msg |-> msg] @@ Call(op, 0, "none", <<>>, <<>>, err, ret)

\* The record of a completed call of the builder or on the GuildConfig of id
\* self, with its argument.
LifeCall(op, self, arg, err, ret) ==
    [self |-> self, arg |-> arg] @@ Call(op, 0, "none", <<>>, <<>>, err, ret)

\* Number of array elements the row holds.
StoreSize(row) ==
    Len(row.priv_admin) + Len(row.priv_manager) + Len(row.priv_event)

\* ----------------------------------------------------- GuildConfigBuilder

\* GuildConfigBuilder::new
GuildConfigBuilder_new(id) ==
    [id |-> id, welcome_message |-> None, goodbye_message |-> None,
     advertise |-> TRUE, admin_chan |-> None, poll_chans |-> None,
     priv_manager |-> <<>>, priv_admin |-> <<>>, priv_event |-> <<>>]

\* GuildConfigBuilder::welcome_message
builder_welcome_message(b, msg) ==
    IF len(msg) > MaxMessageLen
    THEN [builder |-> b, result |-> MessageTooLong("welcome_message")]
    ELSE [builder |-> [b EXCEPT !.welcome_message = Some(msg)], result |-> Ok]

\* GuildConfigBuilder::goodbye_message
builder_goodbye_message(b, msg) ==
    IF len(msg) > MaxMessageLen
    THEN [builder |-> b, result |-> MessageTooLong("goodbye_message")]
    ELSE [builder |-> [b EXCEPT !.goodbye_message = Some(msg)], result |-> Ok]

\* GuildConfigBuilder::advertise
builder_advertise(b, v) == [b EXCEPT !.advertise = v]

\* An INSERT with the two message parameters in each other's place.
InsertedRow_MessagesSwapped(b) ==
    [welcome_message |-> b.goodbye_message, goodbye_message |-> b.welcome_message,
     advertise |-> b.advertise, admin_chan |-> b.admin_chan,
     poll_chans |-> b.poll_chans, priv_admin |-> b.priv_admin,
     priv_manager |-> b.priv_manager, priv_event |-> b.priv_event]

\* The columns of the row the INSERT of GuildConfig::new writes: the bind
\* parameters $2..$9, each the builder's field.
InsertedRow(b) ==
    [welcome_message |-> b.welcome_message, goodbye_message |-> b.goodbye_message,
     advertise |-> b.advertise, admin_chan |-> b.admin_chan,
     poll_chans |-> b.poll_chans, priv_admin |-> b.priv_admin,
     priv_manager |-> b.priv_manager, priv_event |-> b.priv_event]

\* The row GuildConfig::new inserts for GuildConfigBuilder::new(id).
NewRow == InsertedRow(GuildConfigBuilder_new(FIRST_ID))

\* i64::try_from(id.into()).unwrap(): the identifier as the store holds it.
\* try_from fails from 2^63 on, and every identifier of the model is below it.
to_i64(id) == id

\* SELECT id FROM guilds, then any(|record| record.id == this_id)
exists(table, self) == \E id \in DOMAIN table : id = self

\* A GuildConfig::new that writes over the row of an id that has one.
GuildConfig_new_Overwrite(table, b) ==
    [table |-> [id \in DOMAIN table \cup {b.id} |->
                   IF id = b.id THEN InsertedRow(b) ELSE table[id]],
     result |-> Ok]

\* INSERT INTO guilds(id, ..) VALUES row on a table whose primary key is id:
\* a second row of an id is refused.
sql_insert_guild(table, id, row) ==
    IF id \in DOMAIN table
    THEN [ok |-> FALSE, table |-> table]
    ELSE [ok |-> TRUE,
          table |-> [i \in DOMAIN table \cup {id} |->
                        IF i = id THEN row ELSE table[i]]]

\* An INSERT of GuildConfig::new with ON CONFLICT (id) DO UPDATE: it writes
\* over the row of an id that has one.
GuildConfig_new_insert_Replace(table, b) ==
    [table |-> [id \in DOMAIN table \cup {b.id} |->
                   IF id = b.id THEN InsertedRow(b) ELSE table[id]],
     result |-> Ok]

\* The INSERT of GuildConfig::new and its `?`
GuildConfig_new_insert(table, b) ==
    LET out == sql_insert_guild(table, to_i64(b.id), InsertedRow(b))
    IN  IF out.ok THEN [table |-> out.table, result |-> Ok]
        ELSE [table |-> table, result |-> SqlxError("unique violation")]

\* GuildConfig::new, the query of exists and the INSERT with nothing between
GuildConfig_new(table, b) ==
    IF exists(table, b.id)
    THEN [table |-> table, result |-> AlreadyExists(b.id)]
    ELSE GuildConfig_new_insert(table, b)

\* SELECT advertise FROM guilds WHERE id=$1 with fetch_one
get_advertise(table, self) ==
    IF self \in DOMAIN table
    THEN [result |-> Ok, value |-> table[self].advertise]
    ELSE [result |-> SqlxError("RowNotFound"), value |-> FALSE]

\* A set_advertise that inserts the row when the id has none.
set_advertise_Upsert(table, self, policy) ==
    [table |-> [id \in DOMAIN table \cup {self} |->
                   IF id = self
                   THEN [(IF self \in DOMAIN table THEN table[self] ELSE NewRow)
                            EXCEPT !.advertise = policy]
                   ELSE table[id]],
     result |-> Ok]

\* UPDATE guilds SET advertise=$1 WHERE id=$2
set_advertise(table, self, policy) ==
    [table |-> sql_update(table, self, "advertise", policy), result |-> Ok]

\* SELECT admin_chan FROM guilds WHERE id=$1 with fetch_one
get_admin_chan(table, self) ==
    IF self \in DOMAIN table
    THEN [result |-> Ok,
          value |-> IF table[self].admin_chan = None THEN None
                    ELSE Some(from_i64(table[self].admin_chan[1]))]
    ELSE [result |-> SqlxError("RowNotFound"), value |-> None]

\* A set_admin_chan that leaves the column as it is when given None.
set_admin_chan_KeepsOnNone(table, self, chan) ==
    [table |-> IF chan = None THEN table
               ELSE sql_update(table, self, "admin_chan", Some(to_i64(chan[1]))),
     result |-> Ok]

\* UPDATE guilds SET admin_chan=$1 WHERE id=$2, $1 the channel as i64 or null
set_admin_chan(table, self, chan) ==
    [table |-> sql_update(table, self, "admin_chan",
                          IF chan = None THEN None ELSE Some(to_i64(chan[1]))),
     result |-> Ok]

\* ------------------------------------------------------------------ slaps

\* Number of rows the ledger can hold: sentences are MessageId(1)..
MaxSentence == 2

Sentences == 1..MaxSentence

\* UserId(87038540) and UserId(454), the offenders of the test fixtures
FIRST_OFFENDER == 87038540

THIRD_OFFENDER == 454

Offenders == {FIRST_OFFENDER, THIRD_OFFENDER}

\* UserId(684308), the manager of the first slap of the test fixtures
ManagerIds == {684308}

\* enum Enforcer
Community == [kind |-> "Community"]

Manager(user) == [kind |-> "Manager", user |-> user]

Enforcers == {Community} \cup {Manager(user) : user \in ManagerIds}

\* "just because", the reason of the first slap of the test fixtures
JustBecause == Str("a", 12)

\* A reason that closes its literal and the VALUES list and goes on with a
\* clause of INSERT, up to the opening quote of a second literal.
OnConflict == Run(") ON CONFLICT (sentence) DO UPDATE SET reason=(", 1)

Rewritten == Str("a", 2)

Injection == JustBecause \o <<Run("'", 1), OnConflict, Run("'", 1)>> \o Rewritten

\* The reasons callers give: none, a sentence, a quote, a piece of SQL.
Reasons == {None, Some(JustBecause), Some(Str("'", 1)), Some(Injection)}

\* fn option_to_enforcer
option_to_enforcer(option) ==
    IF option = None THEN Community ELSE Manager(from_i64(option[1]))

\* fn enforcer_to_option
enforcer_to_option(enforcer) ==
    IF enforcer.kind = "Manager" THEN Some(enforcer.user) ELSE None

\* impl Display for UserId: the decimal digits of the id, one token of text
Display(id) == <<Run(ToString(id), 1)>>

\* The server reading the digits of a quoted literal as a bigint.
bigint(digits) == CHOOSE id \in ManagerIds \cup Offenders : Display(id) = digits

\* struct SlapReport
SlapReport(sentence, offender, enforcer, reason) ==
    [sentence |-> sentence, offender |-> offender, enforcer |-> enforcer,
     reason |-> reason]

\* A row of table slaps.
SlapRow(sentence, guild_id, offender, enforcer, reason) ==
    [sentence |-> sentence, guild |-> guild_id, offender |-> offender,
     enforcer |-> enforcer, reason |-> reason]

\* What the server reads from the text put last in `VALUES (.., <reason>)`:
\* NULL or a literal, which the `)` of the format string follows; text after
\* the literal is SQL only if it is the ON CONFLICT clause and a second
\* literal, the value the clause gives the row already there.
sql_reason(sql) ==
    IF sql = NULL THEN [ok |-> TRUE, value |-> None, on_conflict |-> None]
    ELSE LET first == literal_and_rest(joined(sql), FALSE, <<>>)
             second == string_literal(Tail(first.rest), FALSE, <<>>)
         IN  IF first.ok /\ first.rest = <<>>
             THEN [ok |-> TRUE, value |-> first.value, on_conflict |-> None]
             ELSE IF first.ok /\ Head(first.rest) = OnConflict /\ second.ok
             THEN [ok |-> TRUE, value |-> first.value,
                   on_conflict |-> Some(second.value)]
             ELSE [ok |-> FALSE, value |-> None, on_conflict |-> None]

\* The row of a sentence, if the table has one.
slap_of(table, sentence) ==
    LET found == SelectSeq(table, LAMBDA row : row.sentence = sentence)
    IN  IF found = <<>> THEN None ELSE Some(found[1])

\* INSERT INTO slaps .. VALUES row [ON CONFLICT (sentence) DO UPDATE SET
\* reason=..] on a table whose primary key is sentence: a second row of a
\* sentence is refused, or with the clause the row there gets the reason.
\* The rows are kept, and read, in the order of the key.
sql_insert_slap(table, row, on_conflict) ==
    IF slap_of(table, row.sentence) = None
    THEN [ok |-> TRUE,
          table |-> SelectSeq(table, LAMBDA r : r.sentence < row.sentence)
                        \o <<row>>
                        \o SelectSeq(table, LAMBDA r : r.sentence > row.sentence)]
    ELSE IF on_conflict = None
    THEN [ok |-> FALSE, table |-> table]
    ELSE [ok |-> TRUE,
          table |-> [i \in DOMAIN table |->
                        IF table[i].sentence = row.sentence
                        THEN [table[i] EXCEPT !.reason = on_conflict[1]]
                        ELSE table[i]]]

\* The enforcer column the server reads from stringify_option of the user.
sql_enforcer(enforcer) ==
    LET user == enforcer_to_option(enforcer)
        read == sql_value(stringify_option(
                    IF user = None THEN None ELSE Some(Display(user[1]))))
    IN  IF read.value = None THEN None ELSE Some(bigint(read.value[1]))

\* fn insert_raw_slap: the INSERT built with format!, the numbers as they
\* are, enforcer and reason through stringify_option
insert_raw_slap(table, sentence, guild_id, offender, enforcer, reason) ==
    LET read == sql_reason(stringify_option(reason))
        row == SlapRow(sentence, guild_id, offender, sql_enforcer(enforcer),
                       read.value)
        out == sql_insert_slap(table, row, read.on_conflict)
    IN  IF ~read.ok
        THEN [table |-> table, result |-> SqlxError("syntax error")]
        ELSE IF ~out.ok
        THEN [table |-> table, result |-> SqlxError("unique violation")]
        ELSE [table |-> out.table, result |-> Ok]

\* SlapReport::get: SELECT offender, enforcer, reason WHERE sentence=$1 with
\* fetch_optional
SlapReport_get(table, sentence) ==
    LET found == slap_of(table, to_i64(sentence))
    IN  IF found = None THEN None
        ELSE Some(SlapReport(sentence, from_i64(found[1].offender),
                             option_to_enforcer(found[1].enforcer),
                             found[1].reason))

\* MemberSlapRecord::new_slap, self the pair (guild, offender): the report is
\* made of the arguments
MemberSlapRecord_new_slap(table, self, sentence, enforcer, reason) ==
    LET out == insert_raw_slap(table, to_i64(sentence), to_i64(self[1]),
                               to_i64(self[2]), enforcer, reason)
    IN  [table |-> out.table, result |-> out.result,
         value |-> IF out.result = Ok
                   THEN Some(SlapReport(sentence, self[2], enforcer, reason))
                   ELSE None]

\* GuildSlapRecord::new_slap, self the guild
GuildSlapRecord_new_slap(table, self, sentence, offender, enforcer, reason) ==
    LET out == insert_raw_slap(table, to_i64(sentence), to_i64(self),
                               to_i64(offender), enforcer, reason)
    IN  [table |-> out.table, result |-> out.result,
         value |-> IF out.result = Ok
                   THEN Some(SlapReport(sentence, offender, enforcer, reason))
                   ELSE None]

\* The rows of a member and of a community, in the order of the table.
rows_of_member(table, guild_id, offender) ==
    SelectSeq(table, LAMBDA row : row.guild = guild_id /\ row.offender = offender)

rows_of_guild(table, guild_id) ==
    SelectSeq(table, LAMBDA row : row.guild = guild_id)

\* A MemberSlapRecord::slaps whose query has no `guild=$1`.
MemberSlapRecord_slaps_AnyGuild(table, self) ==
    LET rows == SelectSeq(table, LAMBDA row : row.offender = to_i64(self[2]))
    IN  [i \in 1..Len(rows) |->
            SlapReport(from_i64(rows[i].sentence), self[2],
                       option_to_enforcer(rows[i].enforcer), rows[i].reason)]

\* MemberSlapRecord::slaps: SELECT sentence, enforcer, reason FROM slaps
\* WHERE guild=$1 AND offender=$2, the offender of each report the member
MemberSlapRecord_slaps(table, self) ==
    LET rows == rows_of_member(table, to_i64(self[1]), to_i64(self[2]))
    IN  [i \in 1..Len(rows) |->
            SlapReport(from_i64(rows[i].sentence), self[2],
                       option_to_enforcer(rows[i].enforcer), rows[i].reason)]

\* MemberSlapRecord::len: SELECT COUNT(sentence) .. WHERE guild=$1 AND offender=$2
MemberSlapRecord_len(table, self) ==
    Len(rows_of_member(table, to_i64(self[1]), to_i64(self[2])))

\* GuildSlapRecord::len: SELECT COUNT(sentence) FROM slaps WHERE guild=$1
GuildSlapRecord_len(table, self) == Len(rows_of_guild(table, to_i64(self)))

\* A GuildSlapRecord::slaps that leaves out the rows of the Community.
GuildSlapRecord_slaps_ManagersOnly(table, self) ==
    LET rows == SelectSeq(rows_of_guild(table, to_i64(self)),
                          LAMBDA row : row.enforcer # None)
    IN  [i \in 1..Len(rows) |->
            SlapReport(from_i64(rows[i].sentence), from_i64(rows[i].offender),
                       option_to_enforcer(rows[i].enforcer), rows[i].reason)]

\* GuildSlapRecord::slaps: SELECT sentence, offender, enforcer, reason FROM
\* slaps WHERE guild=$1
GuildSlapRecord_slaps(table, self) ==
    LET rows == rows_of_guild(table, to_i64(self))
    IN  [i \in 1..Len(rows) |->
            SlapReport(from_i64(rows[i].sentence), from_i64(rows[i].offender),
                       option_to_enforcer(rows[i].enforcer), rows[i].reason)]

\* SELECT DISTINCT: every value once, here at the place of its first row.
RECURSIVE distinct(_)
distinct(values) ==
    IF values = <<>> THEN <<>>
    ELSE <<Head(values)>>
             \o distinct(SelectSeq(Tail(values), LAMBDA v : v # Head(values)))

\* The column offender of the rows of a community.
offenders_of_guild(table, guild_id) ==
    LET rows == rows_of_guild(table, guild_id)
    IN  [i \in 1..Len(rows) |-> rows[i].offender]

\* A GuildSlapRecord::offenders whose query has no DISTINCT.
offenders_EveryRow(table, self) ==
    LET found == offenders_of_guild(table, to_i64(self))
    IN  [i \in 1..Len(found) |-> <<self, from_i64(found[i])>>]

\* GuildSlapRecord::offenders: SELECT DISTINCT offender FROM slaps WHERE
\* guild=$1, each a MemberSlapRecord(guild, offender)
offenders(table, self) ==
    LET found == distinct(offenders_of_guild(table, to_i64(self)))
    IN  [i \in 1..Len(found) |-> <<self, from_i64(found[i])>>]

\* GuildSlapRecord::offender_count: SELECT COUNT(DISTINCT offender) FROM slaps
\* WHERE guild=$1
offender_count(table, self) ==
    Len(distinct(offenders_of_guild(table, to_i64(self))))

\* ------------------------------------------------------------ privileges

Init ==
    /\ guilds = [id \in {FIRST_ID} |-> NewRow]
    /\ builder = GuildConfigBuilder_new(FIRST_ID)
    /\ text = Hello
    /\ last = Call("new", 0, "none", <<>>, <<>>, Ok, TRUE)
    /\ slaps = <<>>
    /\ calls = <<>>

\* grant_privilege on the GuildConfig of id self.  Without a row the fetch_one
\* of the first get_raw_roles_with fails and nothing is written.
GrantPrivilegeOn(self) ==
    \E id \in Roles, privilege \in Privileges :
        IF self \in DOMAIN guilds
        THEN LET out == grant_privilege(guilds[self], id, privilege)
             IN  /\ StoreSize(out.row) <= MaxStore
                 /\ guilds' = [guilds EXCEPT ![self] = out.row]
                 /\ last' = Call("grant_privilege", id, privilege, <<>>, <<>>,
                                 out.result, TRUE)
                 /\ UNCHANGED <<builder, text, slaps, calls>>
        ELSE /\ last' = Call("grant_privilege", id, privilege, <<>>, <<>>,
                             SqlxError("RowNotFound"), TRUE)
             /\ UNCHANGED <<guilds, builder, text, slaps, calls>>

\* deny_privilege on the GuildConfig of id self.
DenyPrivilegeOn(self) ==
    \E id \in Roles, privilege \in Privileges :
        IF self \in DOMAIN guilds
        THEN LET out == deny_privilege(guilds[self], id, privilege)
             IN  /\ guilds' = [guilds EXCEPT ![self] = out.row]
                 /\ last' = Call("deny_privilege", id, privilege, <<>>, <<>>,
                                 out.result, TRUE)
                 /\ UNCHANGED <<builder, text, slaps, calls>>
        ELSE /\ last' = Call("deny_privilege", id, privilege, <<>>, <<>>,
                             SqlxError("RowNotFound"), TRUE)
             /\ UNCHANGED <<guilds, builder, text, slaps, calls>>

GrantPrivilege == GrantPrivilegeOn(FIRST_ID)

DenyPrivilege == DenyPrivilegeOn(FIRST_ID)

HasPrivilege ==
    \E role \in Roles, privilege \in Privileges :
        /\ last' = Call("has_privilege", role, privilege, <<>>, <<>>, Ok,
                        has_privilege(guild, role, privilege))
        /\ UNCHANGED <<guilds, builder, text, slaps, calls>>

HavePrivilege ==
    \E roles \in RoleLists, privilege \in Privileges :
        /\ last' = Call("have_privilege", 0, privilege, roles, <<>>, Ok,
                        have_privilege(guild, roles, privilege))
        /\ UNCHANGED <<guilds, builder, text, slaps, calls>>

HasPrivileges ==
    \E role \in Roles, privileges \in PrivilegeLists :
        /\ last' = Call("has_privileges", role, "none", <<>>, privileges, Ok,
                        has_privileges(guild, role, privileges))
        /\ UNCHANGED <<guilds, builder, text, slaps, calls>>

GetPrivilegesFor ==
    \E role \in Roles :
        /\ last' = Call("get_privileges_for", role, "none", <<>>, <<>>, Ok,
                        get_privileges_for(guild, role))
        /\ UNCHANGED <<guilds, builder, text, slaps, calls>>

GetRolesWith ==
    \E privilege \in Privileges :
        /\ last' = Call("get_roles_with", 0, privilege, <<>>, <<>>, Ok,
                        get_roles_with(guild, privilege))
        /\ UNCHANGED <<guilds, builder, text, slaps, calls>>

Next ==
    \/ GrantPrivilege
    \/ DenyPrivilege
    \/ HasPrivilege
    \/ HavePrivilege
    \/ HasPrivileges
    \/ GetPrivilegesFor
    \/ GetRolesWith

Spec == Init /\ [][Next]_vars

\* --------------------------------------------------------------- MsgSpec

\* What a caller passes as `msg: Option<&str>`.
MessageArgs == {None} \cup {Some(m) : m \in Messages}

SetMessage(op, msg_ty) ==
    \E msg \in MessageArgs :
        LET out == set_message(guilds, FIRST_ID, msg_ty, msg)
        IN  /\ guilds' = out.table
            /\ last' = MessageCall(op, msg_ty, msg, out.result, TRUE)
            /\ UNCHANGED <<builder, text, slaps, calls>>

GetMessage(op, msg_ty) ==
    LET out == get_message(guilds, FIRST_ID, msg_ty)
    IN  /\ last' = MessageCall(op, msg_ty, None, out.result, out.value)
        /\ UNCHANGED <<guilds, builder, text, slaps, calls>>

SetWelcomeMessage == SetMessage("set_welcome_message", "Welcome")

SetGoodbyeMessage == SetMessage("set_goodbye_message", "Goodbye")

GetWelcomeMessage == GetMessage("get_welcome_message", "Welcome")

GetGoodbyeMessage == GetMessage("get_goodbye_message", "Goodbye")

MsgNext ==
    \/ SetWelcomeMessage
    \/ SetGoodbyeMessage
    \/ GetWelcomeMessage
    \/ GetGoodbyeMessage

MsgSpec == Init /\ [][MsgNext]_vars

\* -------------------------------------------------------------- LifeSpec

\* The row of FIRST_ID in the database of the tests.
FixtureRow ==
    [welcome_message |-> Some(Hello), goodbye_message |-> None,
     advertise |-> TRUE, admin_chan |-> Some(87904),
     poll_chans |-> Some(<<2323, 664, 1212054>>),
     priv_manager |-> <<22522, 44943544, 4444444>>,
     priv_admin |-> <<22522, 44943544>>, priv_event |-> <<48201365>>]

\* The table is empty or holds the row of FIRST_ID; the caller has a new
\* builder and one message string to hand to it.
LifeInit ==
    /\ guilds \in {[id \in {} |-> NewRow], [id \in {FIRST_ID} |-> FixtureRow]}
    /\ builder = GuildConfigBuilder_new(FIRST_ID)
    /\ text \in Messages
    /\ last = LifeCall("builder_new", FIRST_ID, None, Ok, TRUE)
    /\ slaps = <<>>
    /\ calls = <<>>

BuilderNew ==
    \E id \in GuildIds :
        /\ builder' = GuildConfigBuilder_new(id)
        /\ last' = LifeCall("builder_new", id, None, Ok, TRUE)
        /\ UNCHANGED <<guilds, text, slaps, calls>>

BuilderWelcomeMessage ==
    LET out == builder_welcome_message(builder, text)
    IN  /\ builder' = out.builder
        /\ last' = LifeCall("builder_welcome_message", builder.id, Some(text),
                            out.result, TRUE)
        /\ UNCHANGED <<guilds, text, slaps, calls>>

BuilderGoodbyeMessage ==
    LET out == builder_goodbye_message(builder, text)
    IN  /\ builder' = out.builder
        /\ last' = LifeCall("builder_goodbye_message", builder.id, Some(text),
                            out.result, TRUE)
        /\ UNCHANGED <<guilds, text, slaps, calls>>

BuilderAdvertise ==
    \E v \in BOOLEAN :
        /\ builder' = builder_advertise(builder, v)
        /\ last' = LifeCall("builder_advertise", builder.id, v, Ok, TRUE)
        /\ UNCHANGED <<guilds, text, slaps, calls>>

\* GuildConfig::new(conn, builder); the caller can build the same builder again.
New ==
    LET out == GuildConfig_new(guilds, builder)
    IN  /\ guilds' = out.table
        /\ last' = LifeCall("new", builder.id, builder, out.result, TRUE)
        /\ UNCHANGED <<builder, text, slaps, calls>>

Exists ==
    \E self \in GuildIds :
        /\ last' = LifeCall("exists", self, None, Ok, exists(guilds, self))
        /\ UNCHANGED <<guilds, builder, text, slaps, calls>>

SetAdvertise ==
    \E self \in GuildIds, policy \in BOOLEAN :
        LET out == set_advertise(guilds, self, policy)
        IN  /\ guilds' = out.table
            /\ last' = LifeCall("set_advertise", self, policy, out.result, TRUE)
            /\ UNCHANGED <<builder, text, slaps, calls>>

GetAdvertise ==
    \E self \in GuildIds :
        LET out == get_advertise(guilds, self)
        IN  /\ last' = LifeCall("get_advertise", self, None, out.result, out.value)
            /\ UNCHANGED <<guilds, builder, text, slaps, calls>>

\* grant_privilege on an id without a row (with a row: GrantPrivilege of Spec)
GrantPrivilegeNoRow ==
    \E self \in GuildIds \ DOMAIN guilds : GrantPrivilegeOn(self)

\* deny_privilege on an id without a row (with a row: DenyPrivilege of Spec)
DenyPrivilegeNoRow ==
    \E self \in GuildIds \ DOMAIN guilds : DenyPrivilegeOn(self)

LifeNext ==
    \/ BuilderNew
    \/ BuilderWelcomeMessage
    \/ BuilderGoodbyeMessage
    \/ BuilderAdvertise
    \/ New
    \/ Exists
    \/ SetAdvertise
    \/ GetAdvertise
    \/ GrantPrivilegeNoRow
    \/ DenyPrivilegeNoRow

LifeSpec == LifeInit /\ [][LifeNext]_vars

\* -------------------------------------------------------------- ChanSpec

\* ChannelId(87904) and ChannelId(2323), two channels of the test fixtures
ChannelIds == {87904, 2323}

\* The row of SECOND_ID in the database of the tests.
SecondFixtureRow ==
    [welcome_message |-> None, goodbye_message |-> Some(Str("a", 7)),
     advertise |-> FALSE, admin_chan |-> None,
     poll_chans |-> Some(<<5406, 254102, 5455>>),
     priv_manager |-> <<843934, 3504, 84304>>,
     priv_admin |-> <<843934, 3504>>, priv_event |-> <<984762>>]

\* The database of the tests: the rows of FIRST_ID and SECOND_ID.
ChanInit ==
    /\ guilds = [id \in GuildIds |->
                    IF id = FIRST_ID THEN FixtureRow ELSE SecondFixtureRow]
    /\ builder = GuildConfigBuilder_new(FIRST_ID)
    /\ text = Hello
    /\ last = LifeCall("exists", FIRST_ID, None, Ok, TRUE)
    /\ slaps = <<>>
    /\ calls = <<>>

SetAdminChan ==
    \E self \in GuildIds, chan \in {None} \cup {Some(c) : c \in ChannelIds} :
        LET out == set_admin_chan(guilds, self, chan)
        IN  /\ guilds' = out.table
            /\ last' = LifeCall("set_admin_chan", self, chan, out.result, TRUE)
            /\ UNCHANGED <<builder, text, slaps, calls>>

GetAdminChan ==
    \E self \in GuildIds :
        LET out == get_admin_chan(guilds, self)
        IN  /\ last' = LifeCall("get_admin_chan", self, None, out.result, out.value)
            /\ UNCHANGED <<guilds, builder, text, slaps, calls>>

ChanNext ==
    \/ SetAdvertise
    \/ GetAdvertise
    \/ SetAdminChan
    \/ GetAdminChan

ChanSpec == ChanInit /\ [][ChanNext]_vars

\* -------------------------------------------------------------- SlapSpec

\* The record of a completed call on the ledger.
SlapCall(op, guild_id, offender, sentence, enforcer, reason, err, ret) ==
    [guild |-> guild_id, offender |-> offender, sentence |-> sentence,
     enforcer |-> enforcer, reason |-> reason]
        @@ Call(op, 0, "none", <<>>, <<>>, err, ret)

\* The two communities have their rows and the ledger is empty.
SlapInit ==
    /\ guilds = [id \in GuildIds |->
                    IF id = FIRST_ID THEN FixtureRow ELSE SecondFixtureRow]
    /\ builder = GuildConfigBuilder_new(FIRST_ID)
    /\ text = Hello
    /\ last = SlapCall("get", FIRST_ID, FIRST_OFFENDER, 1, Community, None, Ok, None)
    /\ slaps = <<>>
    /\ calls = <<>>

\* MemberSlapRecord(guild, offender).new_slap(sentence, enforcer, reason),
\* enforcer and reason one of the given pairs
MemberNewSlapOf(pairs) ==
    \E guild_id \in GuildIds, offender \in Offenders, sentence \in Sentences,
       pair \in pairs :
        LET out == MemberSlapRecord_new_slap(slaps, <<guild_id, offender>>,
                                             sentence, pair[1], pair[2])
        IN  /\ slaps' = out.table
            /\ last' = SlapCall("member_new_slap", guild_id, offender, sentence,
                                pair[1], pair[2], out.result, out.value)
            /\ UNCHANGED <<guilds, builder, text, calls>>

\* GuildSlapRecord(guild).new_slap(sentence, offender, enforcer, reason)
GuildNewSlapOf(pairs) ==
    \E guild_id \in GuildIds, offender \in Offenders, sentence \in Sentences,
       pair \in pairs :
        LET out == GuildSlapRecord_new_slap(slaps, guild_id, sentence, offender,
                                            pair[1], pair[2])
        IN  /\ slaps' = out.table
            /\ last' = SlapCall("guild_new_slap", guild_id, offender, sentence,
                                pair[1], pair[2], out.result, out.value)
            /\ UNCHANGED <<guilds, builder, text, calls>>

\* Enforcer and reason of the calls: the two of the fixtures, the Community
\* with a reason, and a manager with each of the other reasons.
SlapArgs ==
    {<<Manager(684308), Some(JustBecause)>>, <<Community, None>>,
     <<Community, Some(JustBecause)>>}
        \cup {<<Manager(684308), reason>> : reason \in Reasons \ {None}}

MemberNewSlap == MemberNewSlapOf(SlapArgs)

GuildNewSlap == GuildNewSlapOf(SlapArgs)

\* SlapReport::get(sentence)
Get ==
    \E sentence \in Sentences :
        /\ last' = SlapCall("get", FIRST_ID, FIRST_OFFENDER, sentence, Community,
                            None, Ok, SlapReport_get(slaps, sentence))
        /\ UNCHANGED <<guilds, builder, text, slaps, calls>>

SlapNext ==
    \/ MemberNewSlap
    \/ GuildNewSlap
    \/ Get

SlapSpec == SlapInit /\ [][SlapNext]_vars

\* -------------------------------------------------------------- ViewSpec

\* Enforcer and reason of the first two slaps of the test fixtures.
FixtureArgs == {<<Manager(684308), Some(JustBecause)>>, <<Community, None>>}

MemberNewSlapOfFixtures == MemberNewSlapOf(FixtureArgs)

GuildNewSlapOfFixtures == GuildNewSlapOf(FixtureArgs)

\* The record of a completed call that reads the ledger.
ViewCall(op, guild_id, offender, ret) ==
    SlapCall(op, guild_id, offender, 1, Community, None, Ok, ret)

\* MemberSlapRecord(guild, offender).slaps(), the stream read to its end
MemberSlaps ==
    \E guild_id \in GuildIds, offender \in Offenders :
        /\ last' = ViewCall("member_slaps", guild_id, offender,
                            MemberSlapRecord_slaps(slaps, <<guild_id, offender>>))
        /\ UNCHANGED <<guilds, builder, text, slaps, calls>>

MemberLen ==
    \E guild_id \in GuildIds, offender \in Offenders :
        /\ last' = ViewCall("member_len", guild_id, offender,
                            MemberSlapRecord_len(slaps, <<guild_id, offender>>))
        /\ UNCHANGED <<guilds, builder, text, slaps, calls>>

\* GuildSlapRecord(guild).slaps(), the stream read to its end
GuildSlaps ==
    \E guild_id \in GuildIds :
        /\ last' = ViewCall("guild_slaps", guild_id, FIRST_OFFENDER,
                            GuildSlapRecord_slaps(slaps, guild_id))
        /\ UNCHANGED <<guilds, builder, text, slaps, calls>>

GuildLen ==
    \E guild_id \in GuildIds :
        /\ last' = ViewCall("guild_len", guild_id, FIRST_OFFENDER,
                            GuildSlapRecord_len(slaps, guild_id))
        /\ UNCHANGED <<guilds, builder, text, slaps, calls>>

\* GuildSlapRecord(guild).offenders(), the stream read to its end
GuildOffenders ==
    \E guild_id \in GuildIds :
        /\ last' = ViewCall("offenders", guild_id, FIRST_OFFENDER,
                            offenders(slaps, guild_id))
        /\ UNCHANGED <<guilds, builder, text, slaps, calls>>

OffenderCount ==
    \E guild_id \in GuildIds :
        /\ last' = ViewCall("offender_count", guild_id, FIRST_OFFENDER,
                            offender_count(slaps, guild_id))
        /\ UNCHANGED <<guilds, builder, text, slaps, calls>>

ViewNext ==
    \/ MemberNewSlapOfFixtures
    \/ GuildNewSlapOfFixtures
    \/ MemberSlaps
    \/ MemberLen
    \/ GuildSlaps
    \/ GuildLen
    \/ GuildOffenders
    \/ OffenderCount

ViewSpec == SlapInit /\ [][ViewNext]_vars

\* -------------------------------------------------------------- RaceSpec

\* Number of callers of GuildConfig::new at the same time.
MaxCallers == 2

Callers == 1..MaxCallers

\* The builders of the callers: either id, advertise set to either value.
RaceBuilders ==
    {builder_advertise(GuildConfigBuilder_new(id), v) :
        id \in GuildIds, v \in BOOLEAN}

\* A call of GuildConfig::new: its builder, the await it is at and, once it
\* has returned, its result.
NewCall(pc, b, result) == [pc |-> pc, builder |-> b, result |-> result]

\* The table is empty or holds the row of FIRST_ID, and every caller is about
\* to call GuildConfig::new with its builder.
RaceInit ==
    /\ guilds \in {[id \in {} |-> NewRow], [id \in {FIRST_ID} |-> FixtureRow]}
    /\ builder = GuildConfigBuilder_new(FIRST_ID)
    /\ text = Hello
    /\ last = LifeCall("builder_new", FIRST_ID, None, Ok, TRUE)
    /\ slaps = <<>>
    /\ calls \in [Callers -> {NewCall("exists", b, Ok) : b \in RaceBuilders}]

\* The first await of GuildConfig::new: the query of exists; the call returns
\* AlreadyExists if the id is among the ids read.
NewExists(p) ==
    /\ calls[p].pc = "exists"
    /\ IF exists(guilds, calls[p].builder.id)
       THEN /\ calls' = [calls EXCEPT ![p] =
                            NewCall("done", @.builder, AlreadyExists(@.builder.id))]
            /\ last' = LifeCall("new", calls[p].builder.id, calls[p].builder,
                                AlreadyExists(calls[p].builder.id), TRUE)
       ELSE /\ calls' = [calls EXCEPT ![p].pc = "insert"]
            /\ UNCHANGED last
    /\ UNCHANGED <<guilds, builder, text, slaps>>

\* The second await of GuildConfig::new: the INSERT, and the return.
NewInsert(p) ==
    /\ calls[p].pc = "insert"
    /\ LET out == GuildConfig_new_insert(guilds, calls[p].builder)
       IN  /\ guilds' = out.table
           /\ calls' = [calls EXCEPT ![p] = NewCall("done", @.builder, out.result)]
           /\ last' = LifeCall("new", calls[p].builder.id, calls[p].builder,
                               out.result, TRUE)
    /\ UNCHANGED <<builder, text, slaps>>

RaceNext ==
    \/ \E p \in Callers : NewExists(p)
    \/ \E p \in Callers : NewInsert(p)

RaceSpec == RaceInit /\ [][RaceNext]_vars

\* -------------------------------------------------------------- StepSpec

\* The callers that call grant_privilege and deny_privilege at the same time.
StepCallers == {"a", "b"}

\* A grant_privilege that grants Admin before Manager.
grant_steps_AdminFirst(privilege) ==
    IF privilege = "Admin" THEN <<"Admin", "Manager">> ELSE <<privilege>>

\* grant_privilege: the privileges it calls grant_single_privilege for, in
\* order (Manager before Admin for Admin)
grant_steps(privilege) ==
    IF privilege = "Admin" THEN <<"Manager", "Admin">> ELSE <<privilege>>

\* A deny_privilege whose Manager arm recurses too, into Event.
deny_steps_Deeper(privilege) ==
    CASE privilege = "Admin" -> <<"Event", "Manager", "Admin">>
      [] privilege = "Manager" -> <<"Event", "Manager">>
      [] OTHER -> <<privilege>>

\* deny_privilege: the privileges whose array it reads and writes, in order;
\* the Admin arm calls deny_privilege for Manager first, and the Manager arm
\* calls nothing
deny_steps(privilege) ==
    IF privilege = "Admin" THEN <<"Manager", "Admin">> ELSE <<privilege>>

\* A call in flight: its arguments, the privileges still to do, the await it
\* is at, the Vec it holds, its result once returned, and the queries and
\* statements it has sent.
PrivilegeCall(op, role, privilege, todo, pc, roles, result, reads, writes) ==
    [op |-> op, role |-> role, privilege |-> privilege, todo |-> todo,
     pc |-> pc, roles |-> roles, result |-> result, reads |-> reads,
     writes |-> writes]

\* A caller that calls nothing.
NoCall == PrivilegeCall("none", 1, "Event", <<>>, "done", <<>>, Ok, 0, 0)

\* The calls a caller can be about to make.
StartedCalls ==
    {PrivilegeCall("grant_privilege", role, privilege, grant_steps(privilege),
                   "read", <<>>, Ok, 0, 0) :
        role \in Roles, privilege \in Privileges}
    \cup {PrivilegeCall("deny_privilege", role, privilege, deny_steps(privilege),
                        "read", <<>>, Ok, 0, 0) :
             role \in Roles, privilege \in Privileges}

\* A row where role 1 is admin and manager and the last role is manager.
StaffedRow == [NewRow EXCEPT !.priv_manager = <<1, MaxRole>>, !.priv_admin = <<1>>]

\* The community has a new row or the staffed one, and every caller is about
\* to make one call, or none.
StepInit ==
    /\ guilds \in {[id \in {FIRST_ID} |-> NewRow], [id \in {FIRST_ID} |-> StaffedRow]}
    /\ builder = GuildConfigBuilder_new(FIRST_ID)
    /\ text = Hello
    /\ last = Call("new", 0, "none", <<>>, <<>>, Ok, TRUE)
    /\ slaps = <<>>
    /\ calls \in [StepCallers -> StartedCalls \cup {NoCall}]

\* get_raw_roles_with(..).await? of the privilege at hand, and the work on
\* the Vec up to the next await: grant_single_privilege pushes the role;
\* deny_privilege looks for it, returns RoleNoPrivilege if it is not there
\* and swap_removes it otherwise.
ReadRoles(p) ==
    LET call == calls[p]
        privilege == Head(call.todo)
        roles == get_raw_roles_with(guild, privilege)
        index == position(roles, call.role)
    IN  /\ call.pc = "read"
        /\ IF call.op = "deny_privilege" /\ index = 0
           THEN /\ calls' = [calls EXCEPT ![p].pc = "done", ![p].reads = @ + 1,
                                          ![p].result =
                                              RoleNoPrivilege(call.role, privilege)]
                /\ last' = Call(call.op, call.role, call.privilege, <<>>, <<>>,
                                RoleNoPrivilege(call.role, privilege), TRUE)
           ELSE /\ calls' = [calls EXCEPT
                                ![p].pc = "write", ![p].reads = @ + 1,
                                ![p].roles = IF call.op = "grant_privilege"
                                             THEN Append(roles, call.role)
                                             ELSE swap_remove(roles, index)]
                /\ UNCHANGED last
        /\ UNCHANGED <<guilds, builder, text, slaps>>

\* update_privilege(.., &roles, privilege).await? of the privilege at hand;
\* the call goes on with the next privilege or returns Ok.
WriteRoles(p) ==
    LET call == calls[p]
    IN  /\ call.pc = "write"
        /\ guilds' = [guilds EXCEPT ![FIRST_ID] =
                         update_privilege(guild, call.roles, Head(call.todo))]
        /\ calls' = [calls EXCEPT
                        ![p].todo = Tail(@), ![p].writes = @ + 1,
                        ![p].pc = IF Tail(call.todo) = <<>> THEN "done" ELSE "read"]
        /\ IF Tail(call.todo) = <<>>
           THEN last' = Call(call.op, call.role, call.privilege, <<>>, <<>>, Ok, TRUE)
           ELSE UNCHANGED last
        /\ UNCHANGED <<builder, text, slaps>>

\* The store answers the query or statement the call is at with an error,
\* which `?` returns.
StoreError(p) ==
    /\ calls[p].pc \in {"read", "write"}
    /\ calls' = [calls EXCEPT
                    ![p].pc = "done", ![p].result = SqlxError("io"),
                    ![p].reads = IF calls[p].pc = "read" THEN @ + 1 ELSE @,
                    ![p].writes = IF calls[p].pc = "write" THEN @ + 1 ELSE @]
    /\ last' = Call(calls[p].op, calls[p].role, calls[p].privilege, <<>>, <<>>,
                    SqlxError("io"), TRUE)
    /\ UNCHANGED <<guilds, builder, text, slaps>>

StepNext ==
    \/ \E p \in StepCallers : ReadRoles(p)
    \/ \E p \in StepCallers : WriteRoles(p)
    \/ \E p \in StepCallers : StoreError(p)

StepSpec == StepInit /\ [][StepNext]_vars

\* The store answers every query and statement of a call in the end.
StepLiveSpec ==
    /\ StepSpec
    /\ \A p \in StepCallers : WF_vars(ReadRoles(p) \/ WriteRoles(p))

\* ------------------------------------------------------------ TenantSpec

\* What the callers of the two communities pass as a message: none, and the
\* message that ends with a quote and two dashes.
TenantMessages == {None, Some(CommentedOut)}

\* Enforcer and reason of the records: the first of the fixtures, and a
\* manager with the reason that carries an ON CONFLICT clause.
TenantArgs ==
    {<<Manager(684308), Some(JustBecause)>>, <<Manager(684308), Some(Injection)>>}

\* GuildConfig(self).set_welcome_message(msg), self either community
TenantSetWelcomeMessage ==
    \E self \in GuildIds, msg \in TenantMessages :
        LET out == set_message(guilds, self, "Welcome", msg)
        IN  /\ guilds' = out.table
            /\ last' = LifeCall("set_welcome_message", self, msg, out.result, TRUE)
            /\ UNCHANGED <<builder, text, slaps, calls>>

\* GuildConfig(self).set_advertise(policy), self either community
TenantSetAdvertise ==
    \E self \in GuildIds, policy \in BOOLEAN :
        LET out == set_advertise(guilds, self, policy)
        IN  /\ guilds' = out.table
            /\ last' = LifeCall("set_advertise", self, policy, out.result, TRUE)
            /\ UNCHANGED <<builder, text, slaps, calls>>

TenantNewSlap == GuildNewSlapOf(TenantArgs)

TenantNext ==
    \/ TenantSetWelcomeMessage
    \/ TenantSetAdvertise
    \/ TenantNewSlap

\* The two communities of the fixtures and an empty ledger to begin with.
TenantSpec == SlapInit /\ [][TenantNext]_vars

\* ----------------------------------------------------------------- claims

\* The roles stored in the array of a privilege, as a set.
RoleSet(row, privilege) ==
    {row[AsRef(privilege)][i] : i \in 1..Len(row[AsRef(privilege)])}

\* C1: after every completed grant_privilege / deny_privilege call, every role
\* in priv_admin is also in priv_manager.
C1_AdminSubsetOfManager ==
    RoleSet(guild, "Admin") \subseteq RoleSet(guild, "Manager")

\* C2: immediately after grant_privilege(r, Admin) returns success,
\* has_privilege(r, Admin), has_privilege(r, Manager) and
\* has_privileges(r, [Admin, Manager]) are all true.
C2_GrantAdminGrantsManager ==
    (last.op = "grant_privilege" /\ last.privilege = "Admin" /\ last.err.kind = "Ok")
        => /\ has_privilege(guild, last.role, "Admin")
           /\ has_privilege(guild, last.role, "Manager")
           /\ has_privileges(guild, last.role, <<"Admin", "Manager">>)

\* C2 witness: a successful grant of Admin to a role that a call before it had
\* left without Manager, Admin still present.
C2_Witness ==
    /\ last.op = "grant_privilege" /\ last.privilege = "Admin"
    /\ last.err.kind = "Ok"
    /\ Len(guild.priv_admin) = 2
    /\ Len(guild.priv_manager) = 1
    /\ last.role \in RoleSet(guild, "Manager")

\* C3: immediately after deny_privilege(r, Admin) returns success,
\* has_privilege(r, Manager) is false.
C3_DenyAdminDeniesManager ==
    (last.op = "deny_privilege" /\ last.privilege = "Admin" /\ last.err.kind = "Ok")
        => ~has_privilege(guild, last.role, "Manager")

\* C4: immediately after deny_privilege(r, p) returns success,
\* has_privilege(r, p) is false, for every privilege p.
C4_DenyRemovesRole ==
    (last.op = "deny_privilege" /\ last.err.kind = "Ok")
        => ~has_privilege(guild, last.role, last.privilege)

\* C5: deny_privilege(r, Admin) on a role that is in priv_admin and not in
\* priv_manager does not fail with RoleNoPrivilege and takes r out of priv_admin.
C5_DenyAdminToleratesMissingManager ==
    [][(/\ last'.op = "deny_privilege" /\ last'.privilege = "Admin"
        /\ last'.role \in RoleSet(guild, "Admin")
        /\ last'.role \notin RoleSet(guild, "Manager"))
          => /\ last'.err.kind = "Ok"
             /\ Len(guild'.priv_admin) < Len(guild.priv_admin)]_vars

\* C6: a deny_privilege call that returns RoleNoPrivilege has changed none of
\* priv_admin, priv_manager and priv_event.
C6_RoleNoPrivilegeLeavesRowUnchanged ==
    [][(last'.op = "deny_privilege" /\ last'.err.kind = "RoleNoPrivilege")
          => guild' = guild]_vars

\* C7: deny_privilege(r, p) for p in {Manager, Event} on a role that is not in
\* the array of p fails with RoleNoPrivilege{r, p}; deny_privilege(r, Admin) on
\* a role in neither priv_admin nor priv_manager fails with RoleNoPrivilege.
C7_DenyOfMissingRoleFails ==
    [][last'.op = "deny_privilege"
          => /\ (/\ last'.privilege \in {"Manager", "Event"}
                 /\ last'.role \notin RoleSet(guild, last'.privilege))
                    => last'.err = RoleNoPrivilege(last'.role, last'.privilege)
             /\ (/\ last'.privilege = "Admin"
                 /\ last'.role \notin RoleSet(guild, "Admin")
                 /\ last'.role \notin RoleSet(guild, "Manager"))
                    => last'.err.kind = "RoleNoPrivilege"]_vars

\* C7 witness: a deny of Manager or Event that failed with the role and the
\* privilege it was called with, other roles being stored.
C7_Witness ==
    /\ last.op = "deny_privilege"
    /\ last.privilege \in {"Manager", "Event"}
    /\ last.err = RoleNoPrivilege(last.role, last.privilege)
    /\ last.role \notin RoleSet(guild, last.privilege)
    /\ RoleSet(guild, last.privilege) # {}

\* The list the description of privileges_for asks for.
ExpectedPrivileges(row, role) ==
    LET axis == IF role \in RoleSet(row, "Admin") THEN <<"Admin", "Manager">>
                ELSE IF role \in RoleSet(row, "Manager") THEN <<"Manager">>
                ELSE <<>>
    IN  axis \o (IF role \in RoleSet(row, "Event") THEN <<"Event">> ELSE <<>>)

\* C8: get_privileges_for(r) is [Admin, Manager] when r is in priv_admin,
\* [Manager] when r is in priv_manager only, empty otherwise, followed by Event
\* exactly when r is in priv_event.
C8_PrivilegesFor ==
    /\ \A r \in Roles : get_privileges_for(guild, r) = ExpectedPrivileges(guild, r)
    /\ last.op = "get_privileges_for"
          => last.ret = ExpectedPrivileges(guild, last.role)

\* C8 witness: a call that answered all three privileges, for an admin role
\* that also holds Event.
C8_Witness ==
    /\ last.op = "get_privileges_for"
    /\ last.ret = <<"Admin", "Manager", "Event">>
    /\ last.role \in RoleSet(guild, "Admin") \cap RoleSet(guild, "Event")

\* C9: has_privileges(r, ps) returns true only if has_privilege(r, p) is true
\* for every p of ps.
C9_HasPrivilegesOnlyIfAll ==
    (last.op = "has_privileges" /\ last.ret = TRUE)
        => \A i \in 1..Len(last.privileges) :
               has_privilege(guild, last.role, last.privileges[i])

\* C10: have_privilege(roles, p) is true if and only if every role of the list
\* is in the array of p, and has_privilege(r, p) is true if and only if r is.
C10_HavePrivilegeIffAll ==
    /\ last.op = "have_privilege"
          => (last.ret = TRUE <=>
                \A i \in 1..Len(last.roles) :
                    last.roles[i] \in RoleSet(guild, last.privilege))
    /\ last.op = "has_privilege"
          => (last.ret = TRUE <=> last.role \in RoleSet(guild, last.privilege))
    /\ \A p \in Privileges : have_privilege(guild, <<>>, p)

\* C10 witness: a have_privilege call on two roles that answered false although
\* one of the two holds the privilege.
C10_Witness ==
    /\ last.op = "have_privilege"
    /\ Len(last.roles) = 2
    /\ last.ret = FALSE
    /\ \E i \in 1..2 : last.roles[i] \in RoleSet(guild, last.privilege)

\* The result of get_roles_with(p) for each privilege p is the same in the two rows.
SameMembership(row1, row2) ==
    \A p \in Privileges : RoleSet(row1, p) = RoleSet(row2, p)

\* C11: grant_privilege(r, p) on a role that already holds p leaves the
\* membership of the three arrays unchanged, and one deny_privilege(r, p) after
\* it has the effect it would have had without the second grant: r is left
\* without p.
C11_GrantIsIdempotent ==
    [][(/\ last'.op = "grant_privilege"
        /\ last'.role \in RoleSet(guild, last'.privilege))
          => /\ SameMembership(guild', guild)
             /\ LET after == deny_privilege(guild', last'.role, last'.privilege)
                    before == deny_privilege(guild, last'.role, last'.privilege)
                IN  /\ SameMembership(after.row, before.row)
                    /\ ~has_privilege(after.row, last'.role, last'.privilege)]_vars

\* No value is at two positions of the list.
NoDuplicates(list) ==
    \A i, j \in 1..Len(list) : list[i] = list[j] => i = j

\* C12: after any sequence of grant_privilege / deny_privilege calls,
\* get_roles_with(p) returns each role at most once, for every privilege p.
C12_RolesWithHasNoDuplicates ==
    /\ \A p \in Privileges : NoDuplicates(get_roles_with(guild, p))
    /\ last.op = "get_roles_with" => NoDuplicates(last.ret)

\* The step changed at most the given columns of the row of FIRST_ID, and no
\* other row.
OnlyColumns(columns) ==
    /\ DOMAIN guilds' = DOMAIN guilds
    /\ \A id \in DOMAIN guilds \ {FIRST_ID} : guilds'[id] = guilds[id]
    /\ \A column \in DOMAIN guild \ columns : guild'[column] = guild[column]

\* C13: grant_privilege(r, Manager) changes only priv_manager and
\* grant_privilege(r, Event) only priv_event; no grant_privilege or
\* deny_privilege of Admin or Manager changes priv_event, and none of Event
\* changes priv_admin or priv_manager.
C13_PrivilegeCallsKeepToTheirColumns ==
    [][last'.op \in {"grant_privilege", "deny_privilege"}
          => /\ (last'.op = "grant_privilege" /\ last'.privilege = "Manager")
                    => OnlyColumns({"priv_manager"})
             /\ (last'.op = "grant_privilege" /\ last'.privilege = "Event")
                    => OnlyColumns({"priv_event"})
             /\ last'.privilege \in {"Admin", "Manager"}
                    => guild'.priv_event = guild.priv_event
             /\ last'.privilege = "Event"
                    => /\ guild'.priv_admin = guild.priv_admin
                       /\ guild'.priv_manager = guild.priv_manager]_vars

\* C13 witness: a grant of Event that succeeded on a row whose other two arrays
\* hold roles.
C13_Witness ==
    /\ last.op = "grant_privilege" /\ last.privilege = "Event"
    /\ last.err.kind = "Ok"
    /\ guild.priv_admin # <<>>
    /\ guild.priv_manager # <<>>

\* The call of the step is a deny_privilege on role r that targets p, or that
\* targets Admin when p is Manager.
DenyTargets(r, p) ==
    /\ last'.op = "deny_privilege"
    /\ last'.role = r
    /\ \/ last'.privilege = p
       \/ p = "Manager" /\ last'.privilege = "Admin"

C15_MessageRoundTrip ==
    (/\ last.op \in {"set_welcome_message", "set_goodbye_message"}
     /\ last.msg # None => chars(last.msg[1]) <= MaxMessageLen)
        => /\ last.err = Ok
           /\ get_message(guilds, FIRST_ID, last.msg_ty).result = Ok
           /\ get_message(guilds, FIRST_ID, last.msg_ty).value = last.msg

\* C16: set_welcome_message / set_goodbye_message with a string of more than
\* 2000 characters fails with MessageTooLong naming the column of the message
\* and leaves the table as it was.
C16_TooLongIsRejected ==
    [][(/\ last'.op \in {"set_welcome_message", "set_goodbye_message"}
        /\ last'.msg # None
        /\ chars(last'.msg[1]) > MaxMessageLen)
          => /\ last'.err = MessageTooLong(IF last'.op = "set_welcome_message"
                                           THEN "welcome_message"
                                           ELSE "goodbye_message")
             /\ guilds' = guilds]_vars

\* C16 witness: a set_goodbye_message that failed with MessageTooLong on a row
\* that holds a message in both columns.
C16_Witness ==
    /\ last.op = "set_goodbye_message"
    /\ last.err = MessageTooLong("goodbye_message")
    /\ chars(last.msg[1]) > MaxMessageLen
    /\ guild.welcome_message # None
    /\ guild.goodbye_message # None

\* C17: with sequential callers, GuildConfig::new for an id that has a row
\* fails with AlreadyExists(id) and leaves the row, and the whole table, as it
\* was.
C17_NewOnExistingRowFails ==
    [][(last'.op = "new" /\ last'.self \in DOMAIN guilds)
          => /\ last'.err = AlreadyExists(last'.self)
             /\ guilds' = guilds]_vars

\* C17 witness: a new that failed with AlreadyExists on the row of the
\* fixtures, from a builder that would have written other values.
C17_Witness ==
    /\ last.op = "new"
    /\ last.err = AlreadyExists(FIRST_ID)
    /\ guilds[FIRST_ID] = FixtureRow
    /\ InsertedRow(builder) # FixtureRow
    /\ builder.goodbye_message # None

C19_NewRowHoldsBuilderValues ==
    (last.op = "new" /\ last.err = Ok)
        => /\ get_advertise(guilds, last.self).value = last.arg.advertise
           /\ get_message(guilds, last.self, "Welcome").value = last.arg.welcome_message
           /\ get_message(guilds, last.self, "Goodbye").value = last.arg.goodbye_message
           /\ get_admin_chan(guilds, last.self).value = None
           /\ \A p \in Privileges : get_roles_with(guilds[last.self], p) = <<>>
           /\ last.arg = GuildConfigBuilder_new(last.self)
                 => /\ get_advertise(guilds, last.self).value = TRUE
                    /\ get_message(guilds, last.self, "Welcome").value = None
                    /\ get_message(guilds, last.self, "Goodbye").value = None

\* C19 witness: a new that succeeded from a builder with a welcome message
\* made of quotes, no goodbye message and advertise set to false.
C19_Witness ==
    /\ last.op = "new" /\ last.err = Ok
    /\ last.arg.welcome_message = Some(text)
    /\ text[1].c = "'"
    /\ last.arg.goodbye_message = None
    /\ last.arg.advertise = FALSE
    /\ guilds[last.self].welcome_message = Some(text)

\* C20: the builder's welcome_message / goodbye_message refuse a string of more
\* than 2000 characters with MessageTooLong naming the field and leave the
\* builder as it was, and accept a string of at most 2000 characters; no row in
\* the table holds a message of more than 2000 characters.
C20_BuilderMessageLimit ==
    [][/\ last'.op \in {"builder_welcome_message", "builder_goodbye_message"}
             => LET field == IF last'.op = "builder_welcome_message"
                             THEN "welcome_message" ELSE "goodbye_message"
                IN  IF chars(text) > MaxMessageLen
                    THEN /\ last'.err = MessageTooLong(field)
                         /\ builder' = builder
                    ELSE /\ last'.err = Ok
                         /\ builder'[field] = Some(text)
       /\ \A id \in DOMAIN guilds' :
             \A column \in {"welcome_message", "goodbye_message"} :
                guilds'[id][column] # None
                    => chars(guilds'[id][column][1]) <= MaxMessageLen]_vars

\* The table with the column of the row of id self set to value.
WithColumn(table, self, column, value) ==
    [table EXCEPT ![self][column] = value]

\* C21: on a community that has a row, get_advertise after set_advertise(b)
\* returns b and get_admin_chan after set_admin_chan(c) returns c, for c None
\* and for c a channel; each setter changes its own column of that row and
\* nothing else in the table.
C21_SettersRoundTrip ==
    [][/\ last'.op = "set_advertise" =>
            /\ last'.err = Ok
            /\ get_advertise(guilds', last'.self) =
                   [result |-> Ok, value |-> last'.arg]
            /\ guilds' = WithColumn(guilds, last'.self, "advertise",
                                    guilds'[last'.self].advertise)
       /\ last'.op = "set_admin_chan" =>
            /\ last'.err = Ok
            /\ get_admin_chan(guilds', last'.self) =
                   [result |-> Ok, value |-> last'.arg]
            /\ guilds' = WithColumn(guilds, last'.self, "admin_chan",
                                    guilds'[last'.self].admin_chan)
       /\ last'.op \in {"get_advertise", "get_admin_chan"} /\ last.self = last'.self
          /\ last.op = (IF last'.op = "get_advertise" THEN "set_advertise"
                        ELSE "set_admin_chan")
          => last'.err = Ok /\ last'.ret = last.arg]_vars

\* set_admin_chan(None) was called on a row that held a channel, and
\* get_admin_chan then returned None.
C21_Witness ==
    /\ last.op = "get_admin_chan"
    /\ last.self = FIRST_ID
    /\ last.ret = None
    /\ guilds[FIRST_ID] = [FixtureRow EXCEPT !.admin_chan = None]

NewSlapOps == {"member_new_slap", "guild_new_slap"}

\* C22: when the sentence has no row, new_slap of either record succeeds for
\* every enforcer and reason, and SlapReport::get of the sentence then returns
\* the report new_slap returned: the sentence, offender, enforcer and reason
\* of the call, Community read back as Community and Manager(u) as Manager(u).
C22_NewSlapThenGet ==
    [][last'.op \in NewSlapOps /\ SlapReport_get(slaps, last'.sentence) = None
       => /\ last'.err = Ok
          /\ last'.ret = Some(SlapReport(last'.sentence, last'.offender,
                                         last'.enforcer, last'.reason))
          /\ SlapReport_get(slaps', last'.sentence) = last'.ret]_vars

\* No two rows of the ledger have the same sentence.
OneRowPerSentence(table) ==
    \A i, j \in DOMAIN table : table[i].sentence = table[j].sentence => i = j

\* C23: the ledger has at most one row per sentence, and new_slap for a
\* sentence that has a row, in whatever community, fails with a store error
\* and leaves the ledger as it was.
C23_SecondSlapOfSentenceFails ==
    [][/\ OneRowPerSentence(slaps')
       /\ last'.op \in NewSlapOps /\ SlapReport_get(slaps, last'.sentence) # None
          => last'.err.kind = "SqlxError" /\ slaps' = slaps]_vars

\* Number of rows of a community, and of one of its members.
RowsOfGuild(table, guild_id) ==
    Cardinality({i \in DOMAIN table : table[i].guild = guild_id})

RowsOfMember(table, guild_id, offender) ==
    Cardinality({i \in DOMAIN table :
                    table[i].guild = guild_id /\ table[i].offender = offender})

\* C24: the report SlapReport::get returns for a sentence stays the same for
\* ever, and the number of rows of a community and of a member never goes
\* down.
C24_LedgerIsAppendOnly ==
    [][/\ \A sentence \in Sentences :
              SlapReport_get(slaps, sentence) # None
              => SlapReport_get(slaps', sentence) = SlapReport_get(slaps, sentence)
       /\ \A guild_id \in GuildIds :
              /\ RowsOfGuild(slaps', guild_id) >= RowsOfGuild(slaps, guild_id)
              /\ \A offender \in Offenders :
                     RowsOfMember(slaps', guild_id, offender)
                         >= RowsOfMember(slaps, guild_id, offender)]_vars

\* C25: a row whose enforcer is null, the Community, has a null reason.
C25_CommunityHasNoReason ==
    \A i \in DOMAIN slaps : slaps[i].enforcer = None => slaps[i].reason = None

\* The entry a row of the ledger stands for.
EntryOf(row) ==
    SlapReport(row.sentence, row.offender,
               IF row.enforcer = None THEN Community ELSE Manager(row.enforcer[1]),
               row.reason)

\* The elements of a sequence, and whether each is there once.
Yielded(stream) == {stream[i] : i \in DOMAIN stream}

EachOnce(stream) == \A i, j \in DOMAIN stream : stream[i] = stream[j] => i = j

RECURSIVE SumOfMemberLen(_, _)
SumOfMemberLen(table, records) ==
    IF records = <<>> THEN 0
    ELSE MemberSlapRecord_len(table, Head(records))
             + SumOfMemberLen(table, Tail(records))

C28_Offenders ==
    /\ \A guild_id \in GuildIds :
           LET stream == offenders(slaps, guild_id)
           IN  /\ Yielded(stream) =
                      {<<guild_id, offender>> : offender \in
                          {o \in Offenders : RowsOfMember(slaps, guild_id, o) > 0}}
               /\ EachOnce(stream)
               /\ offender_count(slaps, guild_id) = Len(stream)
    /\ last.op = "offenders" => last.ret = offenders(slaps, last.guild)
    /\ last.op = "offender_count" => last.ret = Len(offenders(slaps, last.guild))

\* offenders() yielded one record for a community whose two entries are of
\* the same offender.
C28_Witness ==
    /\ last.op = "offenders"
    /\ Len(last.ret) = 1
    /\ RowsOfGuild(slaps, last.guild) = 2

\* The callers whose GuildConfig::new for the id has returned, and those of
\* them it returned Ok to.
Returned(id) ==
    {p \in DOMAIN calls : calls[p].pc = "done" /\ calls[p].builder.id = id}

Succeeded(id) == {p \in Returned(id) : calls[p].result = Ok}

\* C29: a GuildConfig::new that fails because the id has a row fails with
\* AlreadyExists(id) and not with a store error, also when the row is
\* inserted by another caller between its query of exists and its INSERT.
C29_ExistingRowIsAlreadyExists ==
    \A p \in DOMAIN calls :
        calls[p].pc = "done" /\ calls[p].result # Ok
        => calls[p].result = AlreadyExists(calls[p].builder.id)

\* C30: however the callers of GuildConfig::new for one id interleave, at
\* most one of them gets Ok, the id has its row once a call for it has
\* returned, that row holds the values of the builder of the caller that got
\* Ok, and no step writes over a row that is there.
C30_OneCreateWins ==
    [][/\ \A id \in GuildIds :
              /\ Cardinality(Succeeded(id)') <= 1
              /\ Returned(id)' # {} => id \in DOMAIN guilds'
              /\ \A p \in Succeeded(id)' :
                     guilds'[id] = InsertedRow(calls'[p].builder)
       /\ \A id \in DOMAIN guilds : id \in DOMAIN guilds' /\ guilds'[id] = guilds[id]]_vars

\* Two callers with different builders for the same id both passed the query
\* of exists; one INSERT succeeded, the other failed, and the row is that of
\* the caller that got Ok.
C30_Witness ==
    /\ calls[1].builder.id = calls[2].builder.id
    /\ calls[1].builder # calls[2].builder
    /\ calls[1].pc = "done" /\ calls[1].result = Ok
    /\ calls[2].pc = "done" /\ calls[2].result = SqlxError("unique violation")
    /\ guilds[calls[1].builder.id] = InsertedRow(calls[1].builder)

\* Every caller has returned from its call, if it made one.
AllReturned == \A p \in DOMAIN calls : calls[p].pc = "done"

\* Nobody but caller p makes a call.
OnlyCaller(p) == \A q \in DOMAIN calls \ {p} : calls[q] = NoCall

\* The role is an admin of the row only if it is a manager of it.
AdminIsManager(row, role) ==
    has_privilege(row, role, "Admin") => has_privilege(row, role, "Manager")

\* C31: when the callers make only grant_privilege calls on the community
\* and all of them have returned, every role of priv_admin is in
\* priv_manager, however their queries and statements interleaved.
C31_ConcurrentGrantsKeepAdminsManagers ==
    (AllReturned /\ \A p \in DOMAIN calls : calls[p].op \in {"grant_privilege", "none"})
    => RoleSet(guild, "Admin") \subseteq RoleSet(guild, "Manager")

\* C32: with no other writer, no step of grant_privilege(r, Admin) leaves a
\* store state where r is in priv_admin and not in priv_manager, a step the
\* store answers with an error included, and the call that returns Ok leaves
\* r in both.
C32_GrantWritesManagerFirst ==
    [][\A p \in DOMAIN calls :
           (/\ calls[p].op = "grant_privilege" /\ calls[p].privilege = "Admin"
            /\ OnlyCaller(p)
            /\ AdminIsManager(guild, calls[p].role))
           => /\ AdminIsManager(guild', calls[p].role)
              /\ (calls'[p].pc = "done" /\ calls'[p].result = Ok)
                 => /\ has_privilege(guild', calls[p].role, "Admin")
                    /\ has_privilege(guild', calls[p].role, "Manager")]_vars

\* grant_privilege(r, Admin) of the only caller failed with a store error
\* after its first statement: r is a manager and no admin.
C32_Witness ==
    \E p \in DOMAIN calls :
        /\ calls[p].op = "grant_privilege" /\ calls[p].privilege = "Admin"
        /\ OnlyCaller(p)
        /\ calls[p].pc = "done" /\ calls[p].result = SqlxError("io")
        /\ calls[p].writes = 1 /\ calls[p].reads = 2
        /\ has_privilege(guild, calls[p].role, "Manager")
        /\ ~has_privilege(guild, calls[p].role, "Admin")

\* C33: with no other writer, in no store state during or after a
\* deny_privilege(r, Admin) call does has_privilege(r, Admin) hold without
\* has_privilege(r, Manager), whether the call returns Ok or fails between
\* its two statements.
C33_DenyNeverShowsAdminWithoutManager ==
    \A p \in DOMAIN calls :
        (/\ calls[p].op = "deny_privilege" /\ calls[p].privilege = "Admin"
         /\ OnlyCaller(p))
        => AdminIsManager(guild, calls[p].role)

\* C34: when two callers made grant_privilege(r1, p) and grant_privilege(r2, p)
\* at the same time and both returned Ok, both roles have the privilege.
C34_NoGrantIsLost ==
    \A p, q \in DOMAIN calls :
        (/\ p # q
         /\ calls[p].op = "grant_privilege" /\ calls[q].op = "grant_privilege"
         /\ calls[p].privilege = calls[q].privilege
         /\ calls[p].pc = "done" /\ calls[p].result = Ok
         /\ calls[q].pc = "done" /\ calls[q].result = Ok)
        => /\ has_privilege(guild, calls[p].role, calls[p].privilege)
           /\ has_privilege(guild, calls[q].role, calls[q].privilege)

\* C37: a call sends at most two queries and two statements, the Admin arm
\* of deny_privilege going one level down into Manager and no further, and
\* when the store answers each of them every call returns.
C37_CallsReturnAfterBoundedRoundTrips ==
    /\ [](\A p \in DOMAIN calls : calls[p].reads <= 2 /\ calls[p].writes <= 2)
    /\ <>AllReturned

\* deny_privilege(r, Admin) returned Ok after two queries and two statements.
C37_Witness ==
    \E p \in DOMAIN calls :
        /\ calls[p].op = "deny_privilege" /\ calls[p].privilege = "Admin"
        /\ calls[p].pc = "done" /\ calls[p].result = Ok
        /\ calls[p].reads = 2 /\ calls[p].writes = 2

\* C35: grant_privilege(r, p) and deny_privilege(r, p) leave has_privilege of
\* every other role as it was, for every privilege: the swap_remove of a deny
\* moves the last element of the array and neither drops nor adds a role.
C35_OtherRolesKeepTheirPrivileges ==
    [][(last'.op \in {"grant_privilege", "deny_privilege"} /\ guild' # guild)
       => \A role \in Roles \ {last'.role}, privilege \in Privileges :
              has_privilege(guild', role, privilege)
                  = has_privilege(guild, role, privilege)]_vars

\* deny_privilege(1, Manager) returned Ok and left role 2, which stood
\* behind role 1 in the array, as the only manager.
C35_Witness ==
    /\ last.op = "deny_privilege"
    /\ last.role = 1 /\ last.privilege = "Manager" /\ last.err = Ok
    /\ guild.priv_manager = <<2>>

\* The operations of a GuildConfig that write its row.
ConfigMutations ==
    {"set_welcome_message", "set_goodbye_message", "set_advertise",
     "set_admin_chan", "grant_privilege", "deny_privilege"}

\* Everything the ledger shows of one community: its entries, its count, its
\* offenders and their count, and the entries and count of each member.
ViewsOf(table, guild_id) ==
    [slaps |-> GuildSlapRecord_slaps(table, guild_id),
     len |-> GuildSlapRecord_len(table, guild_id),
     offenders |-> offenders(table, guild_id),
     offender_count |-> offender_count(table, guild_id),
     members |-> [offender \in Offenders |->
                     <<MemberSlapRecord_slaps(table, <<guild_id, offender>>),
                       MemberSlapRecord_len(table, <<guild_id, offender>>)>>]]

\* C36: a call that writes the row of one community leaves the row of every
\* other community and the ledger as they were, and a record in the ledger of
\* one community leaves the views and counts of every other community and
\* every configuration row as they were.
C36_TenantsAreIsolated ==
    [][/\ last'.op \in ConfigMutations =>
            /\ slaps' = slaps
            /\ \A other \in DOMAIN guilds \ {last'.self} :
                   /\ other \in DOMAIN guilds'
                   /\ guilds'[other] = guilds[other]
       /\ last'.op \in NewSlapOps =>
            /\ guilds' = guilds
            /\ \A other \in GuildIds \ {last'.guild} :
                   ViewsOf(slaps', other) = ViewsOf(slaps, other)]_vars

====
